---- MODULE Spec2Model ----
(***************************************************************************)
(* The admin BFF (server/index.cjs): an Express application that answers   *)
(* GET /health itself, gates every later layer behind an optional shared   *)
(* secret header, answers GET /bff/dev-auth-status itself and forwards the *)
(* rest of /bff to the backend under /api/public, injecting the server     *)
(* side auth-token when the caller sent none.                              *)
(*                                                                         *)
(* Strings the code trims, compares or rewrites are sequences: a header or *)
(* environment value is a sequence of characters, a URL is a sequence of   *)
(* pieces ("/", "bff", "x", "?", ...) whose concatenation is the URL.      *)
(***************************************************************************)
EXTENDS Integers, Sequences, FiniteSets, TLC

VARIABLES env, cfg, phase, layer, req, error, res, sent, visited, log,
          listening, backendUp, pending, other, banner, panel

vars ==
    <<env, cfg, phase, layer, req, error, res, sent, visited, log,
      listening, backendUp, pending, other, banner, panel>>

\* what lies outside the request in hand: the process and its listener, the
\* backend, the proxied requests of other callers that still wait for it,
\* and a second request in flight that the event loop has set aside
gateway == <<listening, backendUp, pending, other>>

\* the browser side: the dev auth banner of App.tsx and the list of a
\* scope set panel
client == <<banner, panel>>

surroundings == <<gateway, client>>

(***************************************************************************)
(* Bounds                                                                  *)
(***************************************************************************)
\* Most blanks put before or after a gate header value.
MaxPad == 1

(***************************************************************************)
(* JavaScript string helpers                                               *)
(***************************************************************************)
SP == " "

RECURSIVE TrimStart(_)
TrimStart(s) == IF s # <<>> /\ Head(s) = SP THEN TrimStart(Tail(s)) ELSE s

RECURSIVE TrimEnd(_)
TrimEnd(s) ==
    IF s # <<>> /\ s[Len(s)] = SP THEN TrimEnd(SubSeq(s, 1, Len(s) - 1)) ELSE s

\* String.prototype.trim
Trim(s) == TrimEnd(TrimStart(s))

\* String.prototype.toLowerCase, on the pieces the model uses
LowerPiece(p) ==
    CASE p = "HEALTH" -> "health"
      [] p = "BFF" -> "bff"
      [] p = "X-Admin-UI-Token" -> "x-admin-ui-token"
      [] p = "X-ADMIN-UI-TOKEN" -> "x-admin-ui-token"
      [] p = "X-Dev-Key" -> "x-dev-key"
      [] OTHER -> p

ToLowerCase(s) == [i \in 1..Len(s) |-> LowerPiece(s[i])]

\* n blanks
RECURSIVE Blanks(_)
Blanks(n) == IF n = 0 THEN <<>> ELSE <<SP>> \o Blanks(n - 1)

\* a value with up to n blanks put around it
Padded(core, n) ==
    {Blanks(p[1]) \o core \o Blanks(p[2]) :
        p \in {q \in (0..n) \X (0..n) : q[1] + q[2] <= n}}

\* a || b on strings: the empty string is falsy
OrElse(a, b) == IF a # <<>> THEN a ELSE b

(***************************************************************************)
(* Configuration (process.env after dotenv.config, then the constants)     *)
(***************************************************************************)
\* process.env[k]; an unset variable reads as undefined, which || treats
\* like the empty string
Getenv(e, k) == IF k \in DOMAIN e THEN e[k] ELSE <<>>

DefaultBackend == <<"http://localhost:7071">>
DefaultHeaderName == <<"x-admin-ui-token">>
DefaultPort == <<"4000">>

\* variant: the variable is read without a default
BACKEND_BASE_URL_NoDefault(e) == Getenv(e, "BACKEND_BASE_URL")

BACKEND_BASE_URL(e) == OrElse(Getenv(e, "BACKEND_BASE_URL"), DefaultBackend)

PORT(e) == OrElse(Getenv(e, "BFF_PORT"), DefaultPort)

API_TOKEN(e) == Trim(OrElse(Getenv(e, "BACKEND_API_TOKEN"), <<>>))

\* variant: the configured name is kept as written
DEV_AUTH_HEADER_NAME_AsWritten(e) ==
    OrElse(Getenv(e, "BFF_DEV_AUTH_HEADER_NAME"), DefaultHeaderName)

DEV_AUTH_HEADER_NAME(e) ==
    ToLowerCase(OrElse(Getenv(e, "BFF_DEV_AUTH_HEADER_NAME"), DefaultHeaderName))

\* variant: the token is kept as written
DEV_AUTH_TOKEN_Untrimmed(e) == OrElse(Getenv(e, "BFF_DEV_AUTH_TOKEN"), <<>>)

DEV_AUTH_TOKEN(e) == Trim(OrElse(Getenv(e, "BFF_DEV_AUTH_TOKEN"), <<>>))

LoadConfig(e) ==
    [BACKEND_BASE_URL |-> BACKEND_BASE_URL(e),
     PORT |-> PORT(e),
     API_TOKEN |-> API_TOKEN(e),
     DEV_AUTH_HEADER_NAME |-> DEV_AUTH_HEADER_NAME(e),
     DEV_AUTH_TOKEN |-> DEV_AUTH_TOKEN(e)]

\* environments the process is started in: each variable unset (<<>> in the
\* option) or set to one of a few values
Opt(S) == {<<>>} \cup {<<v>> : v \in S}

EnvBinding(k, o) == IF o = <<>> THEN <<>> ELSE k :> o[1]

DevTokenEnvValues == {<<SP>>, <<SP, "a", SP>>}
ApiTokenEnvValues == {<<SP>>, <<"k", SP>>}
SiteEnvValues ==
    {<<>>, <<<<"http://backend:7071">>, <<"X-Admin-UI-Token">>>>}

Envs ==
    {EnvBinding("BFF_DEV_AUTH_TOKEN", d) @@ EnvBinding("BACKEND_API_TOKEN", a)
        @@ (IF s = <<>> THEN <<>>
            ELSE ("BACKEND_BASE_URL" :> s[1]) @@ ("BFF_DEV_AUTH_HEADER_NAME" :> s[2])) :
        d \in Opt(DevTokenEnvValues), a \in Opt(ApiTokenEnvValues),
        s \in SiteEnvValues}

(***************************************************************************)
(* Inbound requests                                                        *)
(***************************************************************************)
AUTH_TOKEN_HEADER == <<"auth-token">>

\* req.headers[name]; a missing header reads as undefined, and both
\* undefined and "" are falsy
Header(h, name) == IF name \in DOMAIN h THEN h[name] ELSE <<>>

HeaderBinding(name, o) == IF o = <<>> THEN <<>> ELSE name :> o[1]

GateHeaderValues ==
    Padded(<<>>, MaxPad) \cup Padded(<<"a">>, MaxPad) \cup {<<"b">>}
AuthHeaderValues == {<<SP>>, <<SP, "c">>}

Headers ==
    {HeaderBinding(DefaultHeaderName, g) @@ HeaderBinding(AUTH_TOKEN_HEADER, c) :
        g \in Opt(GateHeaderValues), c \in Opt(AuthHeaderValues)}

\* request targets: a path and a query
Target(path, query) == [path |-> path, query |-> query]

Targets ==
    {Target(<<"/", "health">>, <<>>),
     Target(<<"/", "HEALTH", "/">>, <<>>),
     Target(<<"/", "bff">>, <<"provider=gem">>),
     Target(<<"/", "bff", "/", "y">>, <<>>),
     Target(<<"/", "bff", "/", "x">>, <<"provider=gem">>),
     Target(<<"/", "bff", "/", "dev-auth-status">>, <<>>),
     Target(<<"/", "bff", "/", "bff", "/", "x">>, <<"provider=gem">>),
     Target(<<"/", "BFF", "/", "x">>, <<>>),
     Target(<<"/", "bff", "x">>, <<>>),
     Target(<<"/", "x">>, <<"provider=gem">>)}

\* req.headers is the header object the middleware reads and writes,
\* req.rawHeaders the headers as they arrived.
\* content type and body text as sent: no body, a JSON document, a broken
\* JSON document, a plain text body
NoBody == [contentType |-> "", text |-> ""]
JsonBody == [contentType |-> "application/json", text |-> "{\"k\":1}"]
BadJsonBody == [contentType |-> "application/json", text |-> "{bad"]
TextBody == [contentType |-> "text/plain", text |-> "{bad"]

Payloads ==
    {<<"GET", NoBody>>, <<"GET", BadJsonBody>>, <<"HEAD", NoBody>>,
     <<"POST", JsonBody>>, <<"POST", TextBody>>}

Requests ==
    {[method |-> m[1], path |-> t.path, query |-> t.query, headers |-> h,
      rawHeaders |-> h, contentType |-> m[2].contentType, text |-> m[2].text,
      consumed |-> FALSE] :
        m \in Payloads, t \in Targets, h \in Headers}

NoRequest ==
    [method |-> "", path |-> <<>>, query |-> <<>>, headers |-> <<>>,
     rawHeaders |-> <<>>, contentType |-> "", text |-> "", consumed |-> FALSE]

\* the page is not open: no banner component and no panel mounted
NoBanner ==
    [mounted |-> FALSE, token |-> <<>>, authorized |-> "null",
     probe |-> "none", status |-> 0]

NoPanel ==
    [mounted |-> FALSE, domains |-> <<>>, loading |-> FALSE, error |-> FALSE,
     alert |-> FALSE, loads |-> <<>>, mutations |-> <<>>, stored |-> 0]

\* no second request in flight
NoOther ==
    [phase |-> "idle", layer |-> 0, req |-> NoRequest, error |-> 0,
     res |-> <<>>, sent |-> <<>>, visited |-> <<>>]

\* req.originalUrl: the request target, path and query
OriginalUrl(r) ==
    r.path \o (IF r.query = <<>> THEN <<>> ELSE <<"?">> \o r.query)

(***************************************************************************)
(* Express routing                                                         *)
(***************************************************************************)
\* app.get(route): the path matches the route without regard to case, with
\* an optional trailing slash
MatchRoute(route, path) ==
    LET p == ToLowerCase(path)
    IN  p = route \/ p = route \o <<"/">>

\* variant: the mount is matched as a plain prefix, without the segment
\* boundary
MatchMount_Prefix(mount, path) ==
    LET p == ToLowerCase(path)
        n == Len(mount)
    IN  Len(p) >= n /\ SubSeq(p, 1, n) = mount

\* app.use(mount): the path starts with the mount, without regard to case,
\* and the mount ends at a segment boundary
MatchMount(mount, path) ==
    LET p == ToLowerCase(path)
        n == Len(mount)
    IN  /\ Len(p) >= n
        /\ SubSeq(p, 1, n) = mount
        /\ (Len(p) = n \/ p[n + 1] = "/")

\* app.get also serves HEAD
IsGetLike(m) == m \in {"GET", "HEAD"}

HEALTH_ROUTE == <<"/", "health">>
STATUS_ROUTE == <<"/", "bff", "/", "dev-auth-status">>
BFF_MOUNT == <<"/", "bff">>

\* the application's stack, in registration order
L_JSON == 1
L_HEALTH == 2
L_GATE == 3
L_GATE_COPY == 4
L_STATUS == 5
L_INJECT == 6
L_PROXY == 7
L_INJECT_COPY == 8
L_PROXY_COPY == 9
L_FINAL == 10

(***************************************************************************)
(* Responses and log lines                                                 *)
(***************************************************************************)
\* a response written by the layer `by`; res.json on a HEAD request sends
\* the status and headers without the body
Response(status, by, json, r) ==
    [status |-> status, by |-> by, json |-> json,
     bodySent |-> r.method # "HEAD"]

HealthJson(c) == [ok |-> TRUE, backend |-> c.BACKEND_BASE_URL]

\* variant: the message tells the caller which value was expected
UnauthorizedJson_EchoesToken(c) ==
    [error |-> "Unauthorized",
     message |-> <<"Missing or invalid dev auth token. Please send header \"">>
                    \o c.DEV_AUTH_HEADER_NAME
                    \o <<"\" with the value ">> \o c.DEV_AUTH_TOKEN]

UnauthorizedJson(c) ==
    [error |-> "Unauthorized",
     message |-> <<"Missing or invalid dev auth token. Please send header \"">>
                    \o c.DEV_AUTH_HEADER_NAME
                    \o <<"\" with the correct value.">>]

StatusJson == [ok |-> TRUE]

GATE_DISABLED_WARNING ==
    "BFF_DEV_AUTH_TOKEN not set - dev auth gate is DISABLED for this instance."

StartupLog(c) ==
    <<"BFF starting", "Admin BFF listening",
      IF c.DEV_AUTH_TOKEN # <<>> THEN "Dev auth gate ENABLED"
      ELSE "Dev auth gate DISABLED">>

(***************************************************************************)
(* Initial state: the module has run and the server listens                *)
(***************************************************************************)
Init ==
    /\ env \in Envs
    /\ cfg = LoadConfig(env)
    /\ phase = "idle"
    /\ layer = 0
    /\ req = NoRequest
    /\ error = 0
    /\ res = <<>>
    /\ sent = <<>>
    /\ visited = <<>>
    /\ log = StartupLog(cfg)
    /\ listening = TRUE
    /\ backendUp = TRUE
    /\ pending = 0
    /\ other = NoOther
    /\ banner = NoBanner
    /\ panel = NoPanel

\* the process-level events that report an error nothing caught
ProcessErrorKinds == {"uncaughtException", "unhandledRejection"}

\* variant: no listener is registered
ProcessHandlers_None == {}

\* the events a listener is registered for
ProcessHandlers == {"uncaughtException", "unhandledRejection"}

ProcessErrorLine(kind) ==
    IF kind = "uncaughtException" THEN "UNCAUGHT EXCEPTION in BFF:"
    ELSE "UNHANDLED REJECTION in BFF:"

IsErrorLine(line) == line \in {ProcessErrorLine(k) : k \in ProcessErrorKinds}

ErrorLines(l) == Cardinality({i \in DOMAIN l : IsErrorLine(l[i])})

\* req.headers as Node's HTTP parser builds it: keyed by the lower-cased
\* header names
NodeHeaders(raw) ==
    [n \in {ToLowerCase(k) : k \in DOMAIN raw} |->
        raw[CHOOSE k \in DOMAIN raw : ToLowerCase(k) = n]]

\* A request arrives. phase, layer, error, res, sent and visited describe the
\* request in hand, log holds the startup lines, the lines of the process
\* handlers and the lines written since the request arrived.
Receive(r) ==
    /\ listening
    /\ phase = "idle"
    /\ req' = [r EXCEPT !.headers = NodeHeaders(r.rawHeaders)]
    /\ phase' = "routing"
    /\ layer' = L_JSON
    /\ error' = 0
    /\ res' = <<>>
    /\ sent' = <<>>
    /\ visited' = <<>>
    /\ log' = StartupLog(cfg) \o SelectSeq(log, IsErrorLine)
    /\ UNCHANGED <<surroundings, env, cfg>>

\* next(): go on with the layer after l
NextLayer(l) ==
    /\ layer' = l + 1
    /\ UNCHANGED <<phase, res>>

\* the layer answers: the response is written and the request is finished
Respond(response) ==
    /\ res' = Append(res, response)
    /\ phase' = "done"
    /\ UNCHANGED layer

(***************************************************************************)
(* app.use(express.json())                                                 *)
(***************************************************************************)
\* the request has a body (a content-length or transfer-encoding header)
HasBody(r) == r.text # ""

TypeIsJson(r) == r.contentType = "application/json"

\* JSON.parse in strict mode accepts the text
ValidJson(t) == t = JsonBody.text

JsonParser ==
    /\ phase = "routing" /\ layer = L_JSON
    /\ visited' = Append(visited, L_JSON)
    /\ IF HasBody(req) /\ TypeIsJson(req)
       THEN /\ req' = [req EXCEPT !.consumed = TRUE]
            /\ IF ValidJson(req.text)
               THEN /\ error' = 0
                    /\ NextLayer(L_JSON)
               ELSE \* next(err) with err.status 400: no layer of the stack
                    \* takes an error, so the final handler answers
                    /\ error' = 400
                    /\ layer' = L_FINAL
                    /\ UNCHANGED <<phase, res>>
       ELSE /\ NextLayer(L_JSON)
            /\ UNCHANGED <<req, error>>
    /\ UNCHANGED <<surroundings, env, cfg, sent, log>>

(***************************************************************************)
(* app.get("/health")                                                      *)
(***************************************************************************)
\* variant: the route is registered behind the gate, nothing answers here
HealthRoute_BehindGate ==
    /\ phase = "routing" /\ layer = L_HEALTH
    /\ NextLayer(L_HEALTH)
    /\ UNCHANGED <<surroundings, env, cfg, req, error, sent, visited, log>>

\* variant: the route asks the backend before it answers
HealthRoute_ProbesBackend ==
    /\ phase = "routing" /\ layer = L_HEALTH
    /\ IF IsGetLike(req.method) /\ MatchRoute(HEALTH_ROUTE, req.path)
       THEN /\ sent' = Append(sent, [target |-> cfg.BACKEND_BASE_URL,
                                      method |-> "GET", url |-> <<"/">>])
            /\ Respond(Response(IF backendUp THEN 200 ELSE 503, "health",
                                 HealthJson(cfg), req))
            /\ visited' = Append(visited, L_HEALTH)
       ELSE /\ NextLayer(L_HEALTH)
            /\ UNCHANGED <<sent, visited>>
    /\ UNCHANGED <<surroundings, env, cfg, req, error, log>>

HealthRoute ==
    /\ phase = "routing" /\ layer = L_HEALTH
    /\ IF IsGetLike(req.method) /\ MatchRoute(HEALTH_ROUTE, req.path)
       THEN /\ Respond(Response(200, "health", HealthJson(cfg), req))
            /\ visited' = Append(visited, L_HEALTH)
       ELSE /\ NextLayer(L_HEALTH)
            /\ UNCHANGED visited
    /\ UNCHANGED <<surroundings, env, cfg, req, error, sent, log>>

(***************************************************************************)
(* Dev auth middleware, registered twice                                   *)
(***************************************************************************)
\* variant: the bypass test is missing
GateDisabled_Never(c) == FALSE

\* !DEV_AUTH_TOKEN
GateDisabled(c) == c.DEV_AUTH_TOKEN = <<>>

\* variant: the header is compared as it arrived
IncomingToken_Untrimmed(c, r) == Header(r.headers, c.DEV_AUTH_HEADER_NAME)

IncomingToken(c, r) == Trim(Header(r.headers, c.DEV_AUTH_HEADER_NAME))

\* variant: only a missing or empty header is rejected
GateRejects_EmptyOnly(c, r) == IncomingToken(c, r) = <<>>

GateRejects(c, r) ==
    IncomingToken(c, r) = <<>> \/ IncomingToken(c, r) # c.DEV_AUTH_TOKEN

\* variant: the copies have drifted apart, the second compares the header
\* as it arrived
DevAuthGate_CopyDrifted(l) ==
    /\ phase = "routing" /\ layer = l
    /\ visited' = Append(visited, l)
    /\ IF GateDisabled(cfg)
       THEN /\ log' = Append(log, GATE_DISABLED_WARNING)
            /\ NextLayer(l)
       ELSE /\ UNCHANGED log
            /\ IF \/ GateRejects(cfg, req)
                  \/ l = L_GATE_COPY
                        /\ IncomingToken_Untrimmed(cfg, req) # cfg.DEV_AUTH_TOKEN
               THEN Respond(Response(401, "gate", UnauthorizedJson(cfg), req))
               ELSE NextLayer(l)
    /\ UNCHANGED <<surroundings, env, cfg, req, error, sent>>

\* variant: the rejecting branch lacks its return, so the 401 is written
\* and next() is called as well
DevAuthGate_NoReturn(l) ==
    /\ phase = "routing" /\ layer = l
    /\ visited' = Append(visited, l)
    /\ IF GateDisabled(cfg)
       THEN /\ log' = Append(log, GATE_DISABLED_WARNING)
            /\ NextLayer(l)
       ELSE /\ UNCHANGED log
            /\ IF GateRejects(cfg, req)
               THEN /\ res' = Append(res, Response(401, "gate",
                                                   UnauthorizedJson(cfg), req))
                    /\ layer' = l + 1
                    /\ UNCHANGED phase
               ELSE NextLayer(l)
    /\ UNCHANGED <<surroundings, env, cfg, req, error, sent>>

\* variant: the bypass is not logged
DevAuthGate_Silent(l) ==
    /\ phase = "routing" /\ layer = l
    /\ visited' = Append(visited, l)
    /\ IF GateDisabled(cfg)
       THEN NextLayer(l)
       ELSE IF GateRejects(cfg, req)
            THEN Respond(Response(401, "gate", UnauthorizedJson(cfg), req))
            ELSE NextLayer(l)
    /\ UNCHANGED <<surroundings, env, cfg, req, error, sent, log>>

DevAuthGate(l) ==
    /\ phase = "routing" /\ layer = l
    /\ visited' = Append(visited, l)
    /\ IF GateDisabled(cfg)
       THEN /\ log' = Append(log, GATE_DISABLED_WARNING)
            /\ NextLayer(l)
       ELSE /\ UNCHANGED log
            /\ IF GateRejects(cfg, req)
               THEN Respond(Response(401, "gate", UnauthorizedJson(cfg), req))
               ELSE NextLayer(l)
    /\ UNCHANGED <<surroundings, env, cfg, req, error, sent>>

(***************************************************************************)
(* app.get("/bff/dev-auth-status")                                         *)
(***************************************************************************)
\* variant: the route is registered behind the proxy, nothing answers here
DevAuthStatus_BehindProxy ==
    /\ phase = "routing" /\ layer = L_STATUS
    /\ NextLayer(L_STATUS)
    /\ UNCHANGED <<surroundings, env, cfg, req, error, sent, visited, log>>

DevAuthStatus ==
    /\ phase = "routing" /\ layer = L_STATUS
    /\ IF IsGetLike(req.method) /\ MatchRoute(STATUS_ROUTE, req.path)
       THEN /\ Respond(Response(200, "status", StatusJson, req))
            /\ visited' = Append(visited, L_STATUS)
       ELSE /\ NextLayer(L_STATUS)
            /\ UNCHANGED visited
    /\ UNCHANGED <<surroundings, env, cfg, req, error, sent, log>>

(***************************************************************************)
(* app.use("/bff", inject, createProxyMiddleware(...)), registered twice   *)
(***************************************************************************)
\* the first handler of the mount: fall back to the server side token
\* variant: the server side token replaces only a missing header
InjectedHeaders_AbsentOnly(c, h) ==
    IF AUTH_TOKEN_HEADER \notin DOMAIN h /\ c.API_TOKEN # <<>>
    THEN (AUTH_TOKEN_HEADER :> c.API_TOKEN) @@ h
    ELSE h

\* variant: the server side token replaces whatever the caller sent
InjectedHeaders_Always(c, h) ==
    IF c.API_TOKEN # <<>> THEN (AUTH_TOKEN_HEADER :> c.API_TOKEN) @@ h ELSE h

InjectedHeaders(c, h) ==
    LET browserToken == Header(h, AUTH_TOKEN_HEADER)
    IN  IF browserToken = <<>> \/ Trim(browserToken) = <<>>
        THEN IF c.API_TOKEN # <<>>
             THEN (AUTH_TOKEN_HEADER :> c.API_TOKEN) @@ h
             ELSE h
        ELSE h

\* variant: the token to fall back on is kept in a place all requests
\* share, and a request in flight that carries its own has overwritten it
InjectToken_SharedToken(l) ==
    LET shared ==
            IF other.phase # "idle"
                /\ Trim(Header(other.req.headers, AUTH_TOKEN_HEADER)) # <<>>
            THEN [cfg EXCEPT !.API_TOKEN = other.req.headers[AUTH_TOKEN_HEADER]]
            ELSE cfg
    IN  /\ phase = "routing" /\ layer = l
        /\ IF MatchMount(BFF_MOUNT, req.path)
           THEN /\ req' = [req EXCEPT
                            !.headers = InjectedHeaders(shared, req.headers)]
                /\ visited' = Append(visited, l)
           ELSE UNCHANGED <<req, visited>>
        /\ NextLayer(l)
        /\ UNCHANGED <<surroundings, env, cfg, error, sent, log>>

InjectToken(l) ==
    /\ phase = "routing" /\ layer = l
    /\ IF MatchMount(BFF_MOUNT, req.path)
       THEN /\ req' = [req EXCEPT !.headers = InjectedHeaders(cfg, req.headers)]
            /\ visited' = Append(visited, l)
       ELSE UNCHANGED <<req, visited>>
    /\ NextLayer(l)
    /\ UNCHANGED <<surroundings, env, cfg, error, sent, log>>

\* path.replace(/^\/bff/, ""): drops a leading "/bff", matching case
\* variant: the pattern never matches and the prefix stays
WithoutBff_Kept(path) == path

\* variant: the pattern is global and unanchored, every "/bff" goes
RECURSIVE WithoutBff_Everywhere(_)
WithoutBff_Everywhere(path) ==
    IF Len(path) < 2 THEN path
    ELSE IF path[1] = "/" /\ path[2] = "bff"
         THEN WithoutBff_Everywhere(SubSeq(path, 3, Len(path)))
         ELSE <<path[1]>> \o WithoutBff_Everywhere(Tail(path))

WithoutBff(path) ==
    IF Len(path) >= 2 /\ path[1] = "/" /\ path[2] = "bff"
    THEN SubSeq(path, 3, Len(path))
    ELSE path

\* pathRewrite
PathRewrite(path) == <<"/", "api", "/", "public">> \o WithoutBff(path)

\* the request the proxy opens to the backend: the middleware rewrites
\* req.originalUrl, copies method and headers and pipes what is left of the
\* inbound stream (nothing once express.json() has read it)
ProxyRequest(c, r) ==
    [target |-> c.BACKEND_BASE_URL,
     method |-> r.method,
     url |-> PathRewrite(OriginalUrl(r)),
     headers |-> r.headers,
     contentType |-> r.contentType,
     declared |-> r.text,
     text |-> IF r.consumed THEN "" ELSE r.text]

\* variant: the first registration sends the request and calls next() as
\* well, so the second registration sends it again
ProxyForward_FallsThrough(l) ==
    /\ phase = "routing" /\ layer = l
    /\ IF MatchMount(BFF_MOUNT, req.path)
       THEN /\ sent' = Append(sent, ProxyRequest(cfg, req))
            /\ visited' = Append(visited, l)
            /\ IF l = L_PROXY
               THEN NextLayer(l)
               ELSE phase' = "proxying" /\ UNCHANGED <<layer, res>>
       ELSE /\ NextLayer(l)
            /\ UNCHANGED <<sent, visited>>
    /\ UNCHANGED <<surroundings, env, cfg, req, error, log>>

ProxyForward(l) ==
    /\ phase = "routing" /\ layer = l
    /\ IF MatchMount(BFF_MOUNT, req.path)
       THEN /\ sent' = Append(sent, ProxyRequest(cfg, req))
            /\ visited' = Append(visited, l)
            /\ phase' = "proxying"
            /\ UNCHANGED <<layer, res>>
       ELSE /\ NextLayer(l)
            /\ UNCHANGED <<sent, visited>>
    /\ UNCHANGED <<surroundings, env, cfg, req, error, log>>

\* the backend has the whole request once the body it was promised arrived
Complete(p) == p.text = p.declared

BackendStatuses == {200, 401}

\* what the backend answers: a status, headers and a body
BackendAnswer(status) ==
    [status |-> status,
     headers |-> (<<"content-type">> :> <<"application/json">>)
                    @@ (<<"x-upstream">> :> <<"s">>),
     body |-> [upstream |-> status]]

\* variant: the proxy answers for the backend when the backend reports an
\* error
Relay_MasksErrors(a, r) ==
    IF a.status >= 400
    THEN [status |-> 502, by |-> "backend", headers |-> <<>>,
          json |-> [error |-> "Bad Gateway"], bodySent |-> r.method # "HEAD"]
    ELSE [status |-> a.status, by |-> "backend", headers |-> a.headers,
          json |-> a.body, bodySent |-> r.method # "HEAD"]

\* the proxy copies the status line and the headers and pipes the body
Relay(a, r) ==
    [status |-> a.status, by |-> "backend", headers |-> a.headers,
     json |-> a.body, bodySent |-> r.method # "HEAD"]

\* the backend answers and the proxy relays the answer; the answer is kept
\* with the request it answers
BackendResponds(status) ==
    /\ phase = "proxying"
    /\ backendUp
    /\ Complete(sent[Len(sent)])
    /\ sent' = [sent EXCEPT ![Len(sent)] =
                    [answer |-> BackendAnswer(status)] @@ @]
    /\ Respond(Relay(BackendAnswer(status), req))
    /\ UNCHANGED <<surroundings, env, cfg, req, error, visited, log>>

\* the proxy's error handler: 504 for a refused, reset or timed out
\* connection, 500 otherwise
ProxyErrorStatus(code) ==
    IF code \in {"ECONNRESET", "ENOTFOUND", "ECONNREFUSED", "ETIMEOUT"}
    THEN 504 ELSE 500

ProxyErrorCodes == {"ECONNREFUSED", "EPIPE"}

ProxyError(code) ==
    /\ phase = "proxying"
    /\ Respond([status |-> ProxyErrorStatus(code), by |-> "proxy-error",
                json |-> [code |-> code], bodySent |-> TRUE])
    /\ log' = Append(log, "[HPM] Error occurred while proxying request")
    /\ UNCHANGED <<surroundings, env, cfg, req, error, sent, visited>>

(***************************************************************************)
(* Express's final handler: no layer answered                              *)
(***************************************************************************)
FinalHandler ==
    /\ phase = "routing" /\ layer = L_FINAL
    /\ Respond([status |-> IF error # 0 THEN error ELSE 404, by |-> "final",
                json |-> [error |-> error], bodySent |-> req.method # "HEAD"])
    /\ visited' = Append(visited, L_FINAL)
    /\ UNCHANGED <<surroundings, env, cfg, req, error, sent, log>>

\* the response has gone out: the request and its state are discarded
Finish ==
    /\ phase = "done"
    /\ phase' = "idle"
    /\ layer' = 0
    /\ req' = NoRequest
    /\ error' = 0
    /\ res' = <<>>
    /\ sent' = <<>>
    /\ visited' = <<>>
    /\ UNCHANGED <<surroundings, env, cfg, log>>

Next ==
    \/ \E r \in Requests : Receive(r)
    \/ JsonParser
    \/ HealthRoute
    \/ \E l \in {L_GATE, L_GATE_COPY} : DevAuthGate(l)
    \/ DevAuthStatus
    \/ \E l \in {L_INJECT, L_INJECT_COPY} : InjectToken(l)
    \/ \E l \in {L_PROXY, L_PROXY_COPY} : ProxyForward(l)
    \/ \E s \in BackendStatuses : BackendResponds(s)
    \/ \E c \in ProxyErrorCodes : ProxyError(c)
    \/ FinalHandler
    \/ Finish

Spec == Init /\ [][Next]_vars

\* the steps the event loop runs as soon as they are ready
GatewayStep ==
    \/ JsonParser
    \/ HealthRoute
    \/ \E l \in {L_GATE, L_GATE_COPY} : DevAuthGate(l)
    \/ DevAuthStatus
    \/ \E l \in {L_INJECT, L_INJECT_COPY} : InjectToken(l)
    \/ \E l \in {L_PROXY, L_PROXY_COPY} : ProxyForward(l)
    \/ FinalHandler

\* Node runs a callback that is ready: the stack of a request in hand is
\* run to its end. Nothing makes a caller send, the backend answer or a
\* connection fail.
SpecFair == Spec /\ WF_vars(GatewayStep)

(***************************************************************************)
(* The gateway in its surroundings: more than one caller, a backend that   *)
(* comes and goes, errors nothing catches                                  *)
(***************************************************************************)
\* Most proxied requests of other callers waiting for the backend.
MaxPending == 1
\* Most uncaught errors in a run.
MaxErrors == 1

\* the proxied request waits for the backend on its socket; the event loop
\* is free and takes the next caller
Yield ==
    /\ phase = "proxying"
    /\ pending < MaxPending
    /\ pending' = pending + 1
    /\ phase' = "idle"
    /\ layer' = 0
    /\ req' = NoRequest
    /\ error' = 0
    /\ res' = <<>>
    /\ sent' = <<>>
    /\ visited' = <<>>
    /\ UNCHANGED <<listening, backendUp, other, client, env, cfg, log>>

\* a waiting request of another caller ends: the backend answered it, or
\* its connection failed and the proxy answered
PendingSettles ==
    /\ pending > 0
    /\ pending' = pending - 1
    /\ UNCHANGED <<listening, backendUp, other, client, env, cfg, phase, layer,
                   req, error, res, sent, visited, log>>

\* the backend stops or starts accepting connections
BackendToggles ==
    /\ backendUp' = ~backendUp
    /\ UNCHANGED <<listening, pending, other, client, env, cfg, phase, layer,
                   req, error, res, sent, visited, log>>

\* Node ends the process on an uncaught exception unless a listener is
\* registered; an unhandled rejection without a listener is raised as an
\* uncaught exception
Survives(kind, handlers) ==
    \/ kind \in handlers
    \/ kind = "unhandledRejection" /\ "uncaughtException" \in handlers

\* variant: the handler reads the configuration afresh, from an environment
\* in which the settings are no longer found
ProcessError_ReloadsConfig(kind, hit) ==
    /\ listening
    /\ ErrorLines(log) < MaxErrors
    /\ hit => phase = "proxying"
    /\ log' = Append(log, ProcessErrorLine(kind))
    /\ cfg' = LoadConfig(<<>>)
    /\ IF hit
       THEN /\ phase' = "idle"
            /\ layer' = 0
            /\ req' = NoRequest
            /\ error' = 0
            /\ res' = <<>>
            /\ sent' = <<>>
            /\ visited' = <<>>
       ELSE UNCHANGED <<phase, layer, req, error, res, sent, visited>>
    /\ UNCHANGED <<listening, backendUp, pending, other, client, env>>

\* A callback throws, or a promise rejects, and nothing catches it. Express
\* catches what a layer throws while the stack runs, so the callback is one
\* of the asynchronous ones: when `hit` it belongs to the proxied request
\* in hand, whose caller is then never answered.
ProcessError(kind, hit) ==
    /\ listening
    /\ ErrorLines(log) < MaxErrors
    /\ hit => phase = "proxying"
    /\ IF Survives(kind, ProcessHandlers)
       THEN /\ log' = Append(log, ProcessErrorLine(kind))
            /\ UNCHANGED listening
       ELSE /\ listening' = FALSE
            /\ UNCHANGED log
    /\ IF hit
       THEN /\ phase' = "idle"
            /\ layer' = 0
            /\ req' = NoRequest
            /\ error' = 0
            /\ res' = <<>>
            /\ sent' = <<>>
            /\ visited' = <<>>
       ELSE UNCHANGED <<phase, layer, req, error, res, sent, visited>>
    /\ UNCHANGED <<backendUp, pending, other, client, env, cfg>>

\* environments with every variable unset, empty or set
UrlEnvValues == {<<>>, <<"http://backend:7071">>}
PortEnvValues == {<<>>, <<"8080">>}
NameEnvValues == {<<>>, <<"X-Dev-Key">>}
WideDevTokenEnvValues == {<<>>, <<SP, "a", SP>>}
WideApiTokenEnvValues == {<<>>, <<"k", SP>>}

EnvValues(k) ==
    CASE k = "BACKEND_BASE_URL" -> UrlEnvValues
      [] k = "BFF_PORT" -> PortEnvValues
      [] k = "BFF_DEV_AUTH_HEADER_NAME" -> NameEnvValues
      [] k = "BFF_DEV_AUTH_TOKEN" -> WideDevTokenEnvValues
      [] k = "BACKEND_API_TOKEN" -> WideApiTokenEnvValues

\* one variable, unset or set to one of its values
EnvChoices ==
    UNION {{<<k, o>> : o \in Opt(EnvValues(k))} :
            k \in {"BACKEND_BASE_URL", "BFF_PORT", "BFF_DEV_AUTH_HEADER_NAME",
                    "BFF_DEV_AUTH_TOKEN", "BACKEND_API_TOKEN"}}

\* the environments that hold one of the variables, alone or next to the
\* gate token
WideEnvs ==
    {EnvBinding(c[1], c[2]) @@ EnvBinding("BFF_DEV_AUTH_TOKEN", d) :
        c \in EnvChoices, d \in Opt(WideDevTokenEnvValues)}

\* requests whose gate header arrives under differently cased names
GateHeaderNames ==
    {<<"x-admin-ui-token">>, <<"X-Admin-UI-Token">>, <<"X-ADMIN-UI-TOKEN">>,
     <<"x-dev-key">>, <<"X-Dev-Key">>}

WideRequest(m, t, h) ==
    [method |-> m[1], path |-> t.path, query |-> t.query, headers |-> h,
     rawHeaders |-> h, contentType |-> m[2].contentType, text |-> m[2].text,
     consumed |-> FALSE]

WideRequests ==
    {WideRequest(<<"GET", NoBody>>,
                 Target(<<"/", "bff", "/", "x">>, <<"provider=gem">>),
                 HeaderBinding(n, <<v>>)) :
        n \in GateHeaderNames, v \in {<<"a">>}}
    \cup
    {WideRequest(<<"GET", NoBody>>,
                 Target(<<"/", "bff", "/", "x">>, <<"provider=gem">>),
                 HeaderBinding(n, <<v>>)) :
        n \in {<<"x-admin-ui-token">>, <<"X-Dev-Key">>}, v \in {<<"b">>}}
    \cup
    {WideRequest(<<"GET", NoBody>>, Target(<<"/", "health">>, <<>>), <<>>),
     WideRequest(<<"GET", NoBody>>, Target(<<"/", "x">>, <<>>), <<>>),
     WideRequest(<<"GET", NoBody>>,
                 Target(<<"/", "bff", "/", "x">>, <<"provider=gem">>), <<>>),
     WideRequest(<<"GET", NoBody>>,
                 Target(<<"/", "bff", "/", "dev-auth-status">>, <<>>),
                 HeaderBinding(<<"X-Admin-UI-Token">>, <<<<"a">>>>)),
     WideRequest(<<"POST", JsonBody>>, Target(<<"/", "bff", "/", "y">>, <<>>),
                 HeaderBinding(<<"X-Dev-Key">>, <<<<"a">>>>))}

InitWide ==
    /\ env \in WideEnvs
    /\ cfg = LoadConfig(env)
    /\ phase = "idle"
    /\ layer = 0
    /\ req = NoRequest
    /\ error = 0
    /\ res = <<>>
    /\ sent = <<>>
    /\ visited = <<>>
    /\ log = StartupLog(cfg)
    /\ listening = TRUE
    /\ backendUp \in BOOLEAN
    /\ pending = 0
    /\ other = NoOther
    /\ banner = NoBanner
    /\ panel = NoPanel

NextWide ==
    \/ \E r \in WideRequests : Receive(r)
    \/ GatewayStep
    \/ \E s \in BackendStatuses : BackendResponds(s)
    \/ \E c \in ProxyErrorCodes : ProxyError(c)
    \/ Finish
    \/ Yield
    \/ PendingSettles
    \/ BackendToggles
    \/ \E k \in ProcessErrorKinds, hit \in BOOLEAN : ProcessError(k, hit)

\* fairness as in SpecFair
SpecWide == InitWide /\ [][NextWide]_vars /\ WF_vars(GatewayStep)

(***************************************************************************)
(* Vocabulary of the properties                                            *)
(***************************************************************************)
(***************************************************************************)
(* Two requests in flight                                                  *)
(***************************************************************************)
\* the request in hand, as a record
InHand ==
    [phase |-> phase, layer |-> layer, req |-> req, error |-> error,
     res |-> res, sent |-> sent, visited |-> visited]

\* The event loop leaves the request in hand and turns to the other one.
\* It can do so where the request in hand waits for something: before its
\* body has been read, while the backend is asked, and between requests;
\* the layers behind the body parser run in one go.
Switch ==
    /\ \/ phase \in {"idle", "proxying", "done"}
       \/ phase = "routing" /\ layer = L_JSON
    /\ other # InHand
    /\ other' = InHand
    /\ phase' = other.phase
    /\ layer' = other.layer
    /\ req' = other.req
    /\ error' = other.error
    /\ res' = other.res
    /\ sent' = other.sent
    /\ visited' = other.visited
    /\ UNCHANGED <<listening, backendUp, pending, client, env, cfg, log>>

PairEnvs ==
    {EnvBinding("BFF_DEV_AUTH_TOKEN", d) @@ EnvBinding("BACKEND_API_TOKEN", a) :
        d \in Opt({<<SP, "a", SP>>}), a \in Opt({<<"k", SP>>})}

\* requests that differ in gate header, auth-token header, path, query and
\* body
PairRequests ==
    {WideRequest(<<"GET", NoBody>>,
                 Target(<<"/", "bff", "/", "x">>, <<"provider=gem">>),
                 DefaultHeaderName :> <<"a">>),
     WideRequest(<<"GET", NoBody>>, Target(<<"/", "bff", "/", "y">>, <<>>),
                 (DefaultHeaderName :> <<"a">>)
                    @@ (AUTH_TOKEN_HEADER :> <<SP, "c">>)),
     WideRequest(<<"POST", TextBody>>,
                 Target(<<"/", "bff", "/", "bff", "/", "x">>, <<>>),
                 (DefaultHeaderName :> <<SP, "a">>)
                    @@ (AUTH_TOKEN_HEADER :> <<SP>>)),
     WideRequest(<<"GET", NoBody>>,
                 Target(<<"/", "bff", "/", "x">>, <<"provider=gem">>),
                 AUTH_TOKEN_HEADER :> <<"d">>),
     WideRequest(<<"GET", NoBody>>, Target(<<"/", "health">>, <<>>), <<>>),
     WideRequest(<<"GET", NoBody>>, Target(<<"/", "x">>, <<>>),
                 DefaultHeaderName :> <<"a">>),
     WideRequest(<<"GET", NoBody>>,
                 Target(<<"/", "bff", "/", "bff", "/", "x", "/", "bff">>,
                        <<"next=", "/", "bff">>),
                 DefaultHeaderName :> <<"a">>)}

InitPair ==
    /\ env \in PairEnvs
    /\ cfg = LoadConfig(env)
    /\ phase = "idle"
    /\ layer = 0
    /\ req = NoRequest
    /\ error = 0
    /\ res = <<>>
    /\ sent = <<>>
    /\ visited = <<>>
    /\ log = StartupLog(cfg)
    /\ listening = TRUE
    /\ backendUp = TRUE
    /\ pending = 0
    /\ other = NoOther
    /\ banner = NoBanner
    /\ panel = NoPanel

NextPair ==
    \/ \E r \in PairRequests : Receive(r)
    \/ GatewayStep
    \/ \E s \in BackendStatuses : BackendResponds(s)
    \/ \E c \in ProxyErrorCodes : ProxyError(c)
    \/ Finish
    \/ Switch

SpecPair == InitPair /\ [][NextPair]_vars

(***************************************************************************)

(***************************************************************************)
(* The client's dev auth banner (App.tsx) in front of the gateway          *)
(***************************************************************************)
\* import.meta.env.VITE_BFF_DEV_AUTH_TOKEN || "": not set, or set
ViteTokens == {<<>>, <<"a">>}

\* fetch("/bff/dev-auth-status", {method: "GET"}) sets no header of its own;
\* a header extension of the browser may add the gate header
ProbeHeaders ==
    {<<>>, DefaultHeaderName :> <<"a">>, DefaultHeaderName :> <<"b">>}

ProbeRequest(h) ==
    WideRequest(<<"GET", NoBody>>,
                Target(<<"/", "bff", "/", "dev-auth-status">>, <<>>), h)

\* the probe is the request the gateway has in hand
ProbeInHand ==
    /\ banner.probe = "sent"
    /\ phase # "idle"
    /\ req.path = <<"/", "bff", "/", "dev-auth-status">>

\* res.ok
Ok(status) == status >= 200 /\ status <= 299

\* first render (authorized is null) and the effect: without a token
\* setAuthorized(true), with one checkAuth() is called
DevAuthBanner ==
    /\ ~banner.mounted
    /\ banner' = IF banner.token = <<>>
                 THEN [banner EXCEPT !.mounted = TRUE, !.authorized = "true"]
                 ELSE [banner EXCEPT !.mounted = TRUE, !.probe = "sent"]
    /\ UNCHANGED <<gateway, panel, env, cfg, phase, layer, req, error, res,
                   sent, visited, log>>

\* the fetch of checkAuth reaches the gateway
CheckAuthFetch(h) ==
    /\ banner.probe = "sent"
    /\ Receive(ProbeRequest(h))

\* variant: any answer counts as authorized
CheckAuthResolves_AnyAnswer ==
    /\ ProbeInHand
    /\ phase = "done" /\ Len(res) = 1
    /\ banner' = [banner EXCEPT !.probe = "answered",
                                !.status = res[1].status,
                                !.authorized = "true"]
    /\ phase' = "idle"
    /\ layer' = 0
    /\ req' = NoRequest
    /\ error' = 0
    /\ res' = <<>>
    /\ sent' = <<>>
    /\ visited' = <<>>
    /\ UNCHANGED <<gateway, panel, env, cfg, log>>

\* the fetch resolves with the gateway's answer: setAuthorized(res.ok)
CheckAuthResolves ==
    /\ ProbeInHand
    /\ phase = "done" /\ Len(res) = 1
    /\ banner' = [banner EXCEPT !.probe = "answered",
                                !.status = res[1].status,
                                !.authorized = IF Ok(res[1].status)
                                               THEN "true" ELSE "false"]
    /\ phase' = "idle"
    /\ layer' = 0
    /\ req' = NoRequest
    /\ error' = 0
    /\ res' = <<>>
    /\ sent' = <<>>
    /\ visited' = <<>>
    /\ UNCHANGED <<gateway, panel, env, cfg, log>>

\* the fetch rejects (the network failed): catch, setAuthorized(false)
CheckAuthCatches ==
    /\ banner.probe = "sent"
    /\ banner' = [banner EXCEPT !.probe = "failed", !.authorized = "false"]
    /\ UNCHANGED <<gateway, panel, env, cfg, phase, layer, req, error, res,
                   sent, visited, log>>

\* if (authorized !== false) return null
BannerShown == banner.mounted /\ banner.authorized = "false"

\* the other calls of the dashboard while the banner probes
BannerTraffic ==
    {WideRequest(<<"GET", NoBody>>,
                 Target(<<"/", "bff", "/", "x">>, <<"provider=gem">>),
                 DefaultHeaderName :> <<"a">>),
     WideRequest(<<"GET", NoBody>>, Target(<<"/", "x">>, <<>>), <<>>)}

InitBanner ==
    /\ env \in PairEnvs
    /\ cfg = LoadConfig(env)
    /\ phase = "idle"
    /\ layer = 0
    /\ req = NoRequest
    /\ error = 0
    /\ res = <<>>
    /\ sent = <<>>
    /\ visited = <<>>
    /\ log = StartupLog(cfg)
    /\ listening = TRUE
    /\ backendUp = TRUE
    /\ pending = 0
    /\ other = NoOther
    /\ banner \in {[NoBanner EXCEPT !.token = t] : t \in ViteTokens}
    /\ panel = NoPanel

NextBanner ==
    \/ DevAuthBanner
    \/ \E h \in ProbeHeaders : CheckAuthFetch(h)
    \/ CheckAuthResolves
    \/ CheckAuthCatches
    \/ \E r \in BannerTraffic : Receive(r)
    \/ GatewayStep
    \/ \E s \in BackendStatuses : BackendResponds(s)
    \/ \E c \in ProxyErrorCodes : ProxyError(c)
    \/ ~ProbeInHand /\ Finish

SpecBanner == InitBanner /\ [][NextBanner]_vars

(***************************************************************************)
(* The list of a scope set panel (ScopeSetPanel.tsx)                       *)
(***************************************************************************)
\* Most loads of the list started in a run.
MaxLoads == 3
\* Most domains in the stored scope set.
MaxStored == 2

\* the list the backend returns when the scope set holds n domains
Listing(n) == [i \in 1..n |-> i]

\* load(): setLoading(true), setError(null), and fetchDomains is awaited
Load(p) ==
    [p EXCEPT !.loading = TRUE,
              !.error = FALSE,
              !.loads = Append(@, [stage |-> "sent", data |-> <<>>])]

\* the loads whose fetchDomains has not settled
InFlight(p) ==
    {i \in DOMAIN p.loads : p.loads[i].stage \in {"sent", "served"}}

\* the panel is mounted and the effect of useDomainList calls load()
ScopeSetPanel ==
    /\ ~panel.mounted
    /\ panel' = Load([panel EXCEPT !.mounted = TRUE])
    /\ UNCHANGED <<gateway, banner, env, cfg, phase, layer, req, error, res,
                   sent, visited, log>>

\* handleAdd with a domain typed in: setError(null), addDomain is awaited
handleAdd ==
    /\ panel.mounted
    /\ Len(panel.loads) + Len(panel.mutations) < MaxLoads
    /\ panel' = [panel EXCEPT !.alert = FALSE,
                              !.mutations = Append(@, "add")]
    /\ UNCHANGED <<gateway, banner, env, cfg, phase, layer, req, error, res,
                   sent, visited, log>>

\* handleRemove from a row of the list, which is rendered when loading is
\* false: setError(null), removeDomain is awaited
handleRemove ==
    /\ panel.mounted
    /\ ~panel.loading /\ panel.domains # <<>>
    /\ Len(panel.loads) + Len(panel.mutations) < MaxLoads
    /\ panel' = [panel EXCEPT !.alert = FALSE,
                              !.mutations = Append(@, "remove")]
    /\ UNCHANGED <<gateway, banner, env, cfg, phase, layer, req, error, res,
                   sent, visited, log>>

\* what the scope set holds after the backend has applied the change
Apply(kind, n) ==
    IF kind = "add" THEN (IF n < MaxStored THEN n + 1 ELSE n)
    ELSE (IF n > 0 THEN n - 1 ELSE n)

\* addDomain or removeDomain resolves: await reload()
MutationResolves ==
    /\ panel.mutations # <<>>
    /\ panel' = Load([panel EXCEPT
                        !.mutations = Tail(@),
                        !.stored = Apply(Head(panel.mutations), @)])
    /\ UNCHANGED <<gateway, banner, env, cfg, phase, layer, req, error, res,
                   sent, visited, log>>

\* addDomain or removeDomain rejects: the handler's catch sets the panel's
\* error, no reload
MutationRejects ==
    /\ panel.mutations # <<>>
    /\ panel' = [panel EXCEPT !.alert = TRUE, !.mutations = Tail(@)]
    /\ UNCHANGED <<gateway, banner, env, cfg, phase, layer, req, error, res,
                   sent, visited, log>>

\* the backend answers the list request of load i with what it holds then
ListServed(i) ==
    /\ i \in DOMAIN panel.loads
    /\ panel.loads[i].stage = "sent"
    /\ panel' = [panel EXCEPT
                    !.loads[i] = [stage |-> "served",
                                  data |-> Listing(panel.stored)]]
    /\ UNCHANGED <<gateway, banner, env, cfg, phase, layer, req, error, res,
                   sent, visited, log>>

\* fetchDomains of load i resolves: setDomains(data), finally
\* setLoading(false)
LoadResolves(i) ==
    /\ i \in DOMAIN panel.loads
    /\ panel.loads[i].stage = "served"
    /\ panel' = [panel EXCEPT !.loads[i].stage = "resolved",
                              !.domains = panel.loads[i].data,
                              !.loading = FALSE]
    /\ UNCHANGED <<gateway, banner, env, cfg, phase, layer, req, error, res,
                   sent, visited, log>>

\* fetchDomains of load i rejects: setError, setDomains([]), finally
\* setLoading(false)
LoadRejects(i) ==
    /\ i \in DOMAIN panel.loads
    /\ panel.loads[i].stage = "sent"
    /\ panel' = [panel EXCEPT !.loads[i] = [stage |-> "rejected",
                                            data |-> <<>>],
                              !.error = TRUE,
                              !.domains = <<>>,
                              !.loading = FALSE]
    /\ UNCHANGED <<gateway, banner, env, cfg, phase, layer, req, error, res,
                   sent, visited, log>>

InitPanel ==
    /\ env = <<>>
    /\ cfg = LoadConfig(env)
    /\ phase = "idle"
    /\ layer = 0
    /\ req = NoRequest
    /\ error = 0
    /\ res = <<>>
    /\ sent = <<>>
    /\ visited = <<>>
    /\ log = StartupLog(cfg)
    /\ listening = TRUE
    /\ backendUp = TRUE
    /\ pending = 0
    /\ other = NoOther
    /\ banner = NoBanner
    /\ panel \in {[NoPanel EXCEPT !.stored = n] : n \in 0..MaxStored}

NextPanel ==
    \/ ScopeSetPanel
    \/ handleAdd
    \/ handleRemove
    \/ MutationResolves
    \/ MutationRejects
    \/ \E i \in 1..MaxLoads : ListServed(i)
    \/ \E i \in 1..MaxLoads : LoadResolves(i)
    \/ \E i \in 1..MaxLoads : LoadRejects(i)

SpecPanel == InitPanel /\ [][NextPanel]_vars

Answered == phase = "done" /\ Len(res) = 1

GateEnabled == cfg.DEV_AUTH_TOKEN # <<>>

\* the health path, in any letter case, with or without a trailing slash
OnHealthPath(r) ==
    ToLowerCase(r.path) \in {<<"/", "health">>, <<"/", "health", "/">>}

OnStatusPath(r) ==
    ToLowerCase(r.path) \in {<<"/", "bff", "/", "dev-auth-status">>,
                             <<"/", "bff", "/", "dev-auth-status", "/">>}

\* the gate header as it arrived, trimmed
TrimmedGateHeader(r) == Trim(Header(r.rawHeaders, cfg.DEV_AUTH_HEADER_NAME))

GateHeaderValid(r) == TrimmedGateHeader(r) = cfg.DEV_AUTH_TOKEN

\* the 401 the gate writes
IsGate401(x) ==
    /\ x.status = 401
    /\ x.by = "gate"
    /\ x.json =
        [error |-> "Unauthorized",
         message |-> <<"Missing or invalid dev auth token. Please send header \"">>
                        \o ToLowerCase(OrElse(Getenv(env, "BFF_DEV_AUTH_HEADER_NAME"),
                                              <<"x-admin-ui-token">>))
                        \o <<"\" with the correct value.">>]

\* the layers behind the gate answered: the status probe, the proxy (with
\* the backend's answer or its own error) or the 404 fallback
AnsweredBehindGate ==
    /\ Answered
    /\ res[1].by \in {"status", "backend", "proxy-error", "final"}
    /\ error = 0

Visited(l) == \E i \in DOMAIN visited : visited[i] = l

\* C1: with the gate enabled, every request to a non-health path whose gate
\* header is missing, empty or different from the token after trimming is
\* answered with the gate's 401: error "Unauthorized", message naming the
\* lower-cased gate header.
C1_InvalidHeaderGets401 ==
    (Answered /\ GateEnabled /\ ~OnHealthPath(req) /\ ~GateHeaderValid(req))
        => IsGate401(res[1])

\* C2: with the gate enabled, a request to a non-health path whose gate
\* header equals the token after trimming never gets the gate's 401, and
\* once the gate has seen it, both copies hand it on and a layer behind the
\* gate (status probe, proxy, 404 fallback) answers it.
C2_ValidHeaderPassesGate ==
    (GateEnabled /\ phase # "idle" /\ ~OnHealthPath(req) /\ GateHeaderValid(req))
        => /\ \A i \in DOMAIN res :
                /\ res[i].by # "gate"
                /\ res[i].status = 401 => res[i].by = "backend"
           /\ (Answered /\ Visited(L_GATE))
                => Visited(L_GATE_COPY) /\ AnsweredBehindGate

C2_Witness ==
    /\ Answered /\ GateEnabled /\ ~OnHealthPath(req)
    /\ GateHeaderValid(req)
    /\ Header(req.rawHeaders, cfg.DEV_AUTH_HEADER_NAME) # cfg.DEV_AUTH_TOKEN
    /\ res[1].by = "backend"

\* C3: with the gate disabled, the gateway never writes a 401 for a request
\* to a non-health path, whatever its headers, and each request the gate
\* sees is handed on by both copies to the layers behind the gate.
C3_DisabledGateNeverRejects ==
    (~GateEnabled /\ phase # "idle" /\ ~OnHealthPath(req))
        => /\ \A i \in DOMAIN res :
                /\ res[i].by # "gate"
                /\ res[i].status = 401 => res[i].by = "backend"
           /\ (Answered /\ Visited(L_GATE))
                => Visited(L_GATE_COPY) /\ AnsweredBehindGate

C3_Witness ==
    /\ Answered /\ ~GateEnabled /\ ~OnHealthPath(req)
    /\ Header(req.rawHeaders, cfg.DEV_AUTH_HEADER_NAME) = <<"b">>
    /\ res[1].by = "backend"
    /\ Len(sent) = 1

\* C4: every GET to /health is answered 200 with {ok: true, backend: the
\* configured backend URL}, whatever the gate configuration and the gate
\* header.
C4_HealthAlways200 ==
    (Answered /\ req.method = "GET" /\ OnHealthPath(req))
        => /\ res[1].status = 200
           /\ res[1].json =
                [ok |-> TRUE,
                 backend |-> OrElse(Getenv(env, "BACKEND_BASE_URL"),
                                    <<"http://localhost:7071">>)]
           /\ res[1].bodySent

\* the auth-token header as the caller sent it
CallerToken == Header(req.rawHeaders, AUTH_TOKEN_HEADER)

CallerTokenBlank == Trim(CallerToken) = <<>>

\* C5: a forwarded request whose auth-token header is absent or blank
\* reaches the backend with auth-token set to the server side token when one
\* is configured, and with its headers as they arrived when none is.
C5_BlankTokenGetsServerToken ==
    \A i \in DOMAIN sent :
        CallerTokenBlank =>
            IF cfg.API_TOKEN # <<>>
            THEN /\ AUTH_TOKEN_HEADER \in DOMAIN sent[i].headers
                 /\ sent[i].headers[AUTH_TOKEN_HEADER] = cfg.API_TOKEN
                 /\ cfg.API_TOKEN = Trim(Getenv(env, "BACKEND_API_TOKEN"))
            ELSE sent[i].headers = req.rawHeaders

C5_Witness ==
    /\ Len(sent) = 1
    /\ CallerToken = <<SP>>
    /\ cfg.API_TOKEN # <<>>
    /\ sent[1].headers[AUTH_TOKEN_HEADER] = <<"k">>

\* C6: a forwarded request with a non-blank auth-token header reaches the
\* backend with that value unchanged, whether or not a server side token is
\* configured.
C6_CallerTokenKept ==
    \A i \in DOMAIN sent :
        ~CallerTokenBlank =>
            /\ AUTH_TOKEN_HEADER \in DOMAIN sent[i].headers
            /\ sent[i].headers[AUTH_TOKEN_HEADER] = CallerToken

C6_Witness ==
    /\ Len(sent) = 1
    /\ CallerToken = <<SP, "c">>
    /\ cfg.API_TOKEN # <<>>

\* the request is to /bff + S, S empty or starting a new segment
UnderBff(r) ==
    /\ Len(r.path) >= 2
    /\ r.path[1] = "/" /\ r.path[2] = "bff"
    /\ (Len(r.path) = 2 \/ r.path[3] = "/")

Suffix(r) == SubSeq(r.path, 3, Len(r.path))

QueryPart(r) == IF r.query = <<>> THEN <<>> ELSE <<"?">> \o r.query

\* C7: a request to /bff + S with query Q goes to the configured backend
\* base URL with the path /api/public + S and the query Q.
C7_RewritesPrefix ==
    \A i \in DOMAIN sent :
        UnderBff(req) =>
            /\ sent[i].target = OrElse(Getenv(env, "BACKEND_BASE_URL"),
                                       <<"http://localhost:7071">>)
            /\ sent[i].url =
                <<"/", "api", "/", "public">> \o Suffix(req) \o QueryPart(req)

C7_Witness ==
    /\ Len(sent) = 1
    /\ req.path = <<"/", "bff", "/", "bff", "/", "x">>
    /\ req.query # <<>>
    /\ sent[1].url = <<"/", "api", "/", "public", "/", "bff", "/", "x", "?", "provider=gem">>

\* a route handler answered: health, the status probe, the proxy or the
\* 404 fallback (a 400 of the body parser is no handler's answer)
HandlerAnswered ==
    /\ Answered
    /\ \/ res[1].by \in {"health", "status", "backend", "proxy-error"}
       \/ res[1].by = "final" /\ res[1].status = 404

NoGateResponse == \A i \in DOMAIN res : res[i].by # "gate"

\* C8 as stated: no request to the health path, whatever its method, gets
\* the gate's 401, and every request to another path that a handler answers
\* went through the gate first.
C8_GateSparesHealthPath ==
    /\ OnHealthPath(req) => NoGateResponse
    /\ (~OnHealthPath(req) /\ HandlerAnswered)
            => Visited(L_GATE) /\ Visited(L_GATE_COPY)

\* the health route takes the request: GET or HEAD on the health path
HealthRequest(r) == OnHealthPath(r) /\ r.method \in {"GET", "HEAD"}

\* C8, amended: no GET or HEAD request to the health path gets the gate's
\* 401, and every other request (another path, or another method on the
\* health path) that a handler answers went through the gate first.
C8_GateSparesHealthGet ==
    /\ HealthRequest(req) => NoGateResponse
    /\ (phase # "idle" /\ ~HealthRequest(req) /\ HandlerAnswered)
            => Visited(L_GATE) /\ Visited(L_GATE_COPY)

C8_Witness ==
    /\ Answered /\ GateEnabled
    /\ HealthRequest(req)
    /\ cfg.DEV_AUTH_HEADER_NAME \notin DOMAIN req.rawHeaders
    /\ req.text = ""
    /\ res[1].by = "health"
    /\ ~Visited(L_GATE)

\* the gate has run on the request and let it through
GatePassed ==
    /\ Visited(L_GATE) /\ Visited(L_GATE_COPY)
    /\ NoGateResponse
    /\ ~GateEnabled \/ GateHeaderValid(req)

\* C9: once the gate has passed, a GET to /bff/dev-auth-status is answered
\* by the gateway itself with 200 and {ok: true}; nothing is sent to the
\* backend, whatever auth-token header the request carries.
C9_StatusProbeAnswers ==
    (Answered /\ req.method = "GET" /\ OnStatusPath(req) /\ GatePassed)
        => /\ res[1].status = 200
           /\ res[1].by = "status"
           /\ res[1].json = [ok |-> TRUE]
           /\ res[1].bodySent
           /\ sent = <<>>

C9_Witness ==
    /\ Answered /\ req.method = "GET" /\ OnStatusPath(req)
    /\ GateEnabled /\ GatePassed
    /\ CallerToken = <<SP, "c">>
    /\ cfg.API_TOKEN # <<>>
    /\ res[1].status = 200

\* C10: in a configuration with the gate enabled, a GET without a body and
\* without a valid gate header gets the gate's 401 from
\* /bff/dev-auth-status and 200 from /health.
C10_ProbeGatedHealthOpen ==
    (Answered /\ GateEnabled /\ req.method = "GET" /\ req.text = ""
        /\ ~GateHeaderValid(req))
        => /\ OnStatusPath(req) => IsGate401(res[1])
           /\ OnHealthPath(req) => res[1].status = 200 /\ res[1].by = "health"

C10_Witness ==
    /\ Answered /\ GateEnabled /\ req.method = "GET" /\ req.text = ""
    /\ OnStatusPath(req)
    /\ Header(req.rawHeaders, cfg.DEV_AUTH_HEADER_NAME) = <<"b">>
    /\ res[1].status = 401

\* a GET to /health as a health check sends it, without a body
HealthCheckInHand ==
    /\ phase # "idle"
    /\ req.method = "GET" /\ OnHealthPath(req)
    /\ req.text = ""

\* C11: the health response reflects only the gateway's own liveness. While
\* a GET to /health is in hand nothing is sent to the backend, its answer
\* is the health route's 200, and it is always answered: also while the
\* backend is unreachable and while proxied requests of other callers are
\* pending or failing.
C11_HealthIsLocal ==
    /\ [](HealthCheckInHand =>
            /\ sent = <<>>
            /\ \A i \in DOMAIN res :
                    res[i].status = 200 /\ res[i].by = "health")
    /\ (HealthCheckInHand ~> (HealthCheckInHand /\ Answered))

\* a health check answered 200 while the backend is down and a proxied
\* request of another caller waits for it
C11_Witness ==
    /\ HealthCheckInHand /\ Answered
    /\ res[1].status = 200
    /\ ~backendUp
    /\ pending > 0

\* the query string at the end of a URL sent to the backend
SentQuery(p, r) ==
    SubSeq(p.url, Len(p.url) - Len(QueryPart(r)) + 1, Len(p.url))

\* C12: forwarding preserves method, query string and body: the backend
\* receives each forwarded request, a request with a JSON body included,
\* with the method, the query and the body bytes the caller sent.
C12_ForwardKeepsRequest ==
    \A i \in DOMAIN sent :
        /\ sent[i].method = req.method
        /\ SentQuery(sent[i], req) = QueryPart(req)
        /\ sent[i].text = req.text

\* the proxy reported a failed connection to the backend for the request
\* in hand
ConnectionFailed ==
    /\ phase # "idle"
    /\ \E i \in DOMAIN log :
            log[i] = "[HPM] Error occurred while proxying request"

\* C13: when the connection to the backend fails, the caller is answered by
\* the proxy's error handler with a 5xx status, and the request was sent to
\* the backend exactly once: no request is ever sent a second time.
C13_FailureGives5xxOnce ==
    /\ Len(sent) <= 1
    /\ ConnectionFailed =>
            /\ Answered
            /\ res[1].by = "proxy-error"
            /\ res[1].status >= 500 /\ res[1].status <= 599
            /\ Len(sent) = 1

C13_Witness ==
    /\ ConnectionFailed
    /\ Answered
    /\ res[1].status = 504
    /\ res[1].json.code = "ECONNREFUSED"
    /\ Len(sent) = 1

\* C14: for every forwarded request that the backend answers, the caller
\* receives the backend's status, headers and body unchanged, a status
\* outside 2xx included.
C14_AnswerRelayedVerbatim ==
    (Answered /\ res[1].by = "backend") =>
        /\ Len(sent) = 1
        /\ res[1].status = sent[1].answer.status
        /\ res[1].headers = sent[1].answer.headers
        /\ res[1].json = sent[1].answer.body

C14_Witness ==
    /\ Answered /\ res[1].by = "backend"
    /\ sent[1].answer.status = 401
    /\ res[1].status = 401
    /\ res[1].json = [upstream |-> 401]

\* the variable is not in the environment, or is there and empty
Unset(k) == k \notin DOMAIN env \/ env[k] = <<>>

\* C15: configuration loading never fails and falls back per key. Whatever
\* the environment holds, the server listens, and each variable that is
\* unset or empty gives its own default (backend URL http://localhost:7071,
\* port 4000, gate header name x-admin-ui-token, both tokens empty) while
\* each variable that is set gives its (lower-cased, trimmed) value.
C15_DefaultsPerKey ==
    /\ listening
    /\ cfg.BACKEND_BASE_URL =
        IF Unset("BACKEND_BASE_URL") THEN <<"http://localhost:7071">>
        ELSE env["BACKEND_BASE_URL"]
    /\ cfg.PORT =
        IF Unset("BFF_PORT") THEN <<"4000">> ELSE env["BFF_PORT"]
    /\ cfg.DEV_AUTH_HEADER_NAME =
        IF Unset("BFF_DEV_AUTH_HEADER_NAME") THEN <<"x-admin-ui-token">>
        ELSE ToLowerCase(env["BFF_DEV_AUTH_HEADER_NAME"])
    /\ cfg.DEV_AUTH_TOKEN =
        IF Unset("BFF_DEV_AUTH_TOKEN") THEN <<>>
        ELSE Trim(env["BFF_DEV_AUTH_TOKEN"])
    /\ cfg.API_TOKEN =
        IF Unset("BACKEND_API_TOKEN") THEN <<>>
        ELSE Trim(env["BACKEND_API_TOKEN"])

\* a server started with BACKEND_BASE_URL empty and the gate token set
\* listens on the default port and reports the default backend on /health
C15_Witness ==
    /\ "BACKEND_BASE_URL" \in DOMAIN env /\ env["BACKEND_BASE_URL"] = <<>>
    /\ cfg.DEV_AUTH_TOKEN = <<"a">>
    /\ cfg.PORT = <<"4000">>
    /\ Answered /\ res[1].by = "health"
    /\ res[1].json.backend = <<"http://localhost:7071">>

\* the configured gate header name as the environment spells it
WrittenGateName ==
    OrElse(Getenv(env, "BFF_DEV_AUTH_HEADER_NAME"), <<"x-admin-ui-token">>)

\* the names under which the request carries the gate header, whatever
\* their letter case
GateNamesSent(r) ==
    {k \in DOMAIN r.rawHeaders : ToLowerCase(k) = ToLowerCase(WrittenGateName)}

\* the request carries the token, trimmed, under the gate header's name
CarriesToken(r) ==
    \E k \in GateNamesSent(r) : Trim(r.rawHeaders[k]) = cfg.DEV_AUTH_TOKEN

\* C16: the gate header name is matched without regard to letter case.
\* With the gate enabled, however the name is cased in the configuration
\* and in the request, a non-health request carrying the token under that
\* name is never rejected by the gate and is handed on by both copies, and
\* one carrying another value, or none, gets the gate's 401.
C16_NameCaseInsensitive ==
    (GateEnabled /\ phase # "idle" /\ ~OnHealthPath(req)) =>
        IF CarriesToken(req)
        THEN /\ NoGateResponse
             /\ (Answered /\ Visited(L_GATE)) =>
                    /\ Visited(L_GATE_COPY)
                    /\ res[1].by \in {"status", "backend", "proxy-error", "final"}
        ELSE (Answered /\ Visited(L_GATE)) => IsGate401(res[1])

\* name configured as X-Dev-Key, sent as X-Dev-Key: both are lower-cased
C16_Witness ==
    /\ GateEnabled
    /\ WrittenGateName = <<"X-Dev-Key">>
    /\ GateNamesSent(req) = {<<"X-Dev-Key">>}
    /\ CarriesToken(req)
    /\ Answered /\ res[1].by = "backend"

\* the variable as the environment holds it
Written(k) == Getenv(env, k)

\* made of blanks only
Blank(v) == v # <<>> /\ \A i \in DOMAIN v : v[i] = SP

\* the gate let the request in hand through: no response of the gate, and
\* once the gate has seen the request both copies have handed it on
GateLetThrough ==
    /\ NoGateResponse
    /\ (Answered /\ Visited(L_GATE)) =>
            /\ Visited(L_GATE_COPY)
            /\ res[1].by \in {"status", "backend", "proxy-error", "final"}

\* C17: secret values are trimmed when loaded. A BFF_DEV_AUTH_TOKEN of
\* blanks only disables the gate (no request is rejected, whatever its
\* headers); a BACKEND_API_TOKEN of blanks only is never injected (each
\* forwarded request keeps the headers it came with); and a token written
\* with blanks around it is matched by a header carrying the bare token.
C17_SecretsTrimmed ==
    (phase # "idle" /\ ~OnHealthPath(req)) =>
        /\ Blank(Written("BFF_DEV_AUTH_TOKEN")) => GateLetThrough
        /\ Blank(Written("BACKEND_API_TOKEN")) =>
                \A i \in DOMAIN sent : sent[i].headers = req.rawHeaders
        /\ (/\ ~Blank(Written("BFF_DEV_AUTH_TOKEN"))
            /\ Written("BFF_DEV_AUTH_TOKEN") # <<>>
            /\ Header(req.rawHeaders, cfg.DEV_AUTH_HEADER_NAME)
                    = Trim(Written("BFF_DEV_AUTH_TOKEN")))
                => GateLetThrough

\* token written " a ", header "a", server token written " ": the request
\* is forwarded with the headers it came with
C17_Witness ==
    /\ Written("BFF_DEV_AUTH_TOKEN") = <<SP, "a", SP>>
    /\ Written("BACKEND_API_TOKEN") = <<SP>>
    /\ Header(req.rawHeaders, cfg.DEV_AUTH_HEADER_NAME) = <<"a">>
    /\ Answered /\ res[1].by = "backend"
    /\ sent[1].headers = req.rawHeaders

\* the bypass warnings in the log
BypassLines == {i \in DOMAIN log : log[i] = GATE_DISABLED_WARNING}

\* the gate layers the request in hand has run
GateLayersRun == {i \in DOMAIN visited : visited[i] \in {L_GATE, L_GATE_COPY}}

\* C18: failing open is observable. With an empty gate token the startup
\* lines say that the gate is disabled and every request that passes a gate
\* layer unchecked leaves a warning in the log, one for each layer; with a
\* non-empty token the startup lines say that the gate is enabled and no
\* such warning is ever written.
C18_FailOpenLogged ==
    /\ Len(log) >= 3
    /\ IF Trim(Written("BFF_DEV_AUTH_TOKEN")) = <<>>
       THEN /\ log[3] = "Dev auth gate DISABLED"
            /\ phase # "idle" =>
                    Cardinality(BypassLines) = Cardinality(GateLayersRun)
       ELSE /\ log[3] = "Dev auth gate ENABLED"
            /\ BypassLines = {}

\* a request without the gate header is forwarded past the disabled gate
\* and the log shows it
C18_Witness ==
    /\ Trim(Written("BFF_DEV_AUTH_TOKEN")) = <<>>
    /\ Header(req.rawHeaders, cfg.DEV_AUTH_HEADER_NAME) = <<>>
    /\ Answered /\ res[1].by = "backend"
    /\ BypassLines # {}

\* an uncaught exception or unhandled rejection has been logged
ErrorLogged ==
    \E i \in DOMAIN log :
        log[i] \in {"UNCAUGHT EXCEPTION in BFF:", "UNHANDLED REJECTION in BFF:"}

\* the request in hand may pass the gate: the gate is off, or the request
\* carries the token
MayPass(r) == ~GateEnabled \/ CarriesToken(r)

\* C19: an uncaught exception or unhandled rejection is logged and does not
\* stop the process. The listener stays bound in every state, and a request
\* answered after such an error is answered as before: a GET to /health
\* with the health route's 200, a /bff request that may pass the gate by
\* the status probe or the proxy, with its path rewritten when the backend
\* was asked, and a request that may not pass with the gate's 401.
C19_ErrorsLoggedProcessLives ==
    /\ listening
    /\ (ErrorLogged /\ Answered) =>
        /\ HealthCheckInHand =>
                res[1].status = 200 /\ res[1].by = "health"
        /\ (UnderBff(req) /\ MayPass(req)) =>
                /\ res[1].by \in {"status", "backend", "proxy-error"}
                /\ \A i \in DOMAIN sent :
                        sent[i].url = <<"/", "api", "/", "public">>
                                        \o Suffix(req) \o QueryPart(req)
        /\ (~OnHealthPath(req) /\ ~MayPass(req)) => IsGate401(res[1])

\* an error was logged before the gate layers ran, and the request went on
\* to the backend and was answered
C19_Witness ==
    /\ listening
    /\ Len(log) = 6
    /\ log[4] = "UNHANDLED REJECTION in BFF:"
    /\ log[5] = GATE_DISABLED_WARNING
    /\ UnderBff(req)
    /\ Answered /\ res[1].by = "backend"

\* the layers of the stages: HEALTH_CHECK, GATE_CHECK (both copies),
\* CREDENTIAL_INJECT and PROXIED (both registrations)
BehindGate == {L_STATUS, L_INJECT, L_PROXY, L_INJECT_COPY, L_PROXY_COPY}

Before(a, b) ==
    \E i, j \in DOMAIN visited : i < j /\ visited[i] = a /\ visited[j] = b

\* the stages run so far came in order, none behind the gate ran without
\* both gate checks before it, the backend was asked only after the
\* credential was injected, and at most one response was written: the
\* gate's 401 (REJECTED) with nothing sent to the backend, or another
\* (RESPONDED)
StagesInOrder ==
    /\ \A i, j \in DOMAIN visited : i < j => visited[i] < visited[j]
    /\ \A l \in BehindGate :
            Visited(l) => Before(L_GATE, l) /\ Before(L_GATE_COPY, l)
    /\ Visited(L_PROXY) => Before(L_INJECT, L_PROXY)
    /\ sent # <<>> => Visited(L_PROXY) \/ Visited(L_PROXY_COPY)
    /\ Len(res) <= 1
    /\ phase = "done" <=> Len(res) = 1
    /\ \A i \in DOMAIN res :
            res[i].by = "gate" =>
                /\ res[i].status = 401
                /\ visited[Len(visited)] \in {L_GATE, L_GATE_COPY}
                /\ sent = <<>>

UnderBffAnyCase(r) ==
    /\ Len(r.path) >= 2
    /\ r.path[1] = "/" /\ r.path[2] \in {"bff", "BFF"}
    /\ (Len(r.path) = 2 \/ r.path[3] = "/")

\* the status probe: GET (or HEAD) /bff/dev-auth-status
StatusProbe(r) == r.method \in {"GET", "HEAD"} /\ OnStatusPath(r)

\* the request in hand satisfies the gate
SatisfiesGate(r) == ~GateEnabled \/ GateHeaderValid(r)

\* the injection middleware changed the headers of the request in hand
CredentialInjected == req.headers # req.rawHeaders

\* a rejected request, a health request and a request that matches no
\* mount cause no backend request and no credential injection
NoBackendWork(r) ==
    \/ \E i \in DOMAIN res : res[i].by = "gate"
    \/ HealthRequest(r)
    \/ ~UnderBffAnyCase(r)

\* C21 as stated: the backend is asked, and a credential is injected, only
\* for a request with a path under /bff that is not the status probe and
\* satisfies the gate.
C21_BackendOnlyUnderBff ==
    (phase # "idle" /\ (sent # <<>> \/ CredentialInjected)) =>
        /\ UnderBff(req)
        /\ ~StatusProbe(req)
        /\ SatisfiesGate(req)

\* C21: the backend is asked, and a credential is injected, only for a
\* request whose path is under /bff in any letter case (as Express matches
\* the mount), that is not the status probe and that satisfies the gate; a
\* request rejected with 401, a health request and a request outside the
\* mount cause no backend request and no credential injection.
C21_BackendOnlyUnderMount ==
    /\ (phase # "idle" /\ (sent # <<>> \/ CredentialInjected)) =>
            /\ UnderBffAnyCase(req)
            /\ ~StatusProbe(req)
            /\ SatisfiesGate(req)
    /\ (phase # "idle" /\ NoBackendWork(req)) =>
            sent = <<>> /\ ~CredentialInjected

\* a request to /BFF/x that satisfies the enabled gate got the server side
\* token and went to the backend
C21_Witness ==
    /\ GateEnabled
    /\ req.path = <<"/", "BFF", "/", "x">>
    /\ CredentialInjected
    /\ Len(sent) = 1
    /\ sent[1].url = <<"/", "api", "/", "public", "/", "BFF", "/", "x">>

\* C22: the two copies of the gate behave as one. Every 401 of the gate is
\* written by the first copy, and the step of the second copy changes
\* neither the request nor the responses nor what was sent to the backend:
\* it hands the request to the next layer, as a pipeline without it would.
C22_SecondCopyIdle ==
    /\ [](\A i \in DOMAIN res :
            res[i].by = "gate" => visited[Len(visited)] = L_GATE)
    /\ [][(phase = "routing" /\ layer = L_GATE_COPY) =>
            /\ phase' = "routing" /\ layer' = L_STATUS
            /\ req' = req /\ error' = error
            /\ res' = res /\ sent' = sent]_vars

\* with the gate enabled, a request passed both copies and was forwarded,
\* its gate header padded with blanks
C22_Witness ==
    /\ GateEnabled
    /\ Visited(L_GATE) /\ Visited(L_GATE_COPY)
    /\ Header(req.rawHeaders, cfg.DEV_AUTH_HEADER_NAME) # cfg.DEV_AUTH_TOKEN
    /\ Len(sent) = 1

\* C23: the /bff injection and proxy are registered twice, but a request
\* the first registration handles is never handled by the second: no
\* request is sent to the backend twice or answered twice, the second
\* registration never injects or forwards, and a forwarded request stays
\* with the first proxy until its one answer, the backend's or the proxy's
\* own error.
C23_SecondRegistrationIdle ==
    /\ Len(sent) <= 1 /\ Len(res) <= 1
    /\ ~Visited(L_INJECT_COPY) /\ ~Visited(L_PROXY_COPY)
    /\ sent # <<>> =>
            /\ layer = L_PROXY
            /\ visited[Len(visited)] = L_PROXY
            /\ phase \in {"proxying", "done"}
            /\ phase = "done" =>
                    /\ Len(res) = 1
                    /\ res[1].by \in {"backend", "proxy-error"}

\* a request under /bff passed the enabled gate, was forwarded once by the
\* first registration and answered once
C23_Witness ==
    /\ GateEnabled /\ UnderBff(req)
    /\ Len(sent) = 1
    /\ visited[Len(visited)] = L_PROXY
    /\ Answered /\ res[1].by = "backend"
    /\ res[1].status = 200

\* the headers a request with the headers raw is forwarded with when it is
\* handled alone
AloneHeaders(raw) ==
    IF Trim(Header(raw, <<"auth-token">>)) = <<>> /\ cfg.API_TOKEN # <<>>
    THEN (<<"auth-token">> :> cfg.API_TOKEN) @@ raw
    ELSE raw

\* the gate's decision on a request with the headers raw, handled alone
AloneGateOk(raw) ==
    \/ cfg.DEV_AUTH_TOKEN = <<>>
    \/ Trim(Header(raw, cfg.DEV_AUTH_HEADER_NAME)) = cfg.DEV_AUTH_TOKEN

\* a request in flight, in hand or set aside, was treated as it would have
\* been alone: rejected only if its own header fails the gate, let past the
\* gate only if its own header satisfies it, and forwarded with the headers
\* and the path that follow from its own headers and target
AsIfAlone(q) ==
    /\ (\E i \in DOMAIN q.res : q.res[i].by = "gate")
            => ~AloneGateOk(q.req.rawHeaders)
    /\ (q.layer > L_GATE_COPY \/ q.sent # <<>>)
            => AloneGateOk(q.req.rawHeaders)
    /\ \A i \in DOMAIN q.sent :
            /\ q.sent[i].headers = AloneHeaders(q.req.rawHeaders)
            /\ UnderBff(q.req) =>
                    q.sent[i].url = <<"/", "api", "/", "public">>
                                        \o Suffix(q.req) \o QueryPart(q.req)

\* C24: concurrent requests do not interfere. Whatever the interleaving of
\* two requests in flight, each one's gate decision, forwarded auth-token
\* and rewritten path are those it would get alone; a token injected for
\* one never shows up on the other.
C24_NoInterference == AsIfAlone(InHand) /\ AsIfAlone(other)

\* two requests at the backend at once: one with the server side token
\* injected, one with the token its caller sent
C24_Witness ==
    /\ Len(sent) = 1 /\ Len(other.sent) = 1
    /\ phase = "proxying" /\ other.phase = "proxying"
    /\ Header(req.rawHeaders, AUTH_TOKEN_HEADER) = <<SP, "c">>
    /\ Header(sent[1].headers, AUTH_TOKEN_HEADER) = <<SP, "c">>
    /\ Header(other.req.rawHeaders, AUTH_TOKEN_HEADER) = <<>>
    /\ Header(other.sent[1].headers, AUTH_TOKEN_HEADER) = <<"k">>

\* the five settings, as the environment gives them at module load
SettingsAtLoad ==
    [BACKEND_BASE_URL |->
        IF Unset("BACKEND_BASE_URL") THEN <<"http://localhost:7071">>
        ELSE env["BACKEND_BASE_URL"],
     PORT |-> IF Unset("BFF_PORT") THEN <<"4000">> ELSE env["BFF_PORT"],
     API_TOKEN |->
        IF Unset("BACKEND_API_TOKEN") THEN <<>>
        ELSE Trim(env["BACKEND_API_TOKEN"]),
     DEV_AUTH_HEADER_NAME |->
        IF Unset("BFF_DEV_AUTH_HEADER_NAME") THEN <<"x-admin-ui-token">>
        ELSE ToLowerCase(env["BFF_DEV_AUTH_HEADER_NAME"]),
     DEV_AUTH_TOKEN |->
        IF Unset("BFF_DEV_AUTH_TOKEN") THEN <<>>
        ELSE Trim(env["BFF_DEV_AUTH_TOKEN"])]

\* C25: the configuration (backend URL, backend token, port, gate header
\* name, gate token) is fixed before the listener binds and is the same in
\* every later state: while the server listens it is what the environment
\* gave at module load, and no step of a request handler or of an error
\* handler changes it.
C25_ConfigFixed ==
    /\ [](listening => cfg = SettingsAtLoad)
    /\ [][cfg' = cfg /\ env' = env]_vars

\* a request was answered by the backend configured in the environment
\* after an error handler had run
C25_Witness ==
    /\ listening
    /\ ErrorLines(log) = 1
    /\ phase = "done" /\ Len(res) = 1 /\ res[1].by = "backend"
    /\ cfg.BACKEND_BASE_URL = <<"http://backend:7071">>
    /\ sent[1].target = cfg.BACKEND_BASE_URL

\* the gate's outcome for the answered request in hand: rejected with the
\* gate's 401, or handed on past both gate layers to what lies behind
GateOutcome ==
    IF \E i \in DOMAIN res : res[i].by = "gate" /\ res[i].status = 401
    THEN "401"
    ELSE IF Visited(L_GATE_COPY) THEN "pass" ELSE "none"

\* C26: the gate outcome of a non-health request is a function of the gate
\* token and the request's gate header value only. Every answered request
\* off the health path got the outcome its header value calls for, pass
\* when the gate is off or the trimmed value equals the token and 401
\* otherwise, whatever its method, path, content type and body.
C26_OutcomeByHeaderOnly ==
    (Answered /\ ~OnHealthPath(req)) =>
        GateOutcome = IF ~GateEnabled
                         \/ Trim(Header(req.rawHeaders, cfg.DEV_AUTH_HEADER_NAME))
                                = cfg.DEV_AUTH_TOKEN
                      THEN "pass" ELSE "401"

\* the text holds the non-empty secret somewhere
Holds(text, secret) ==
    /\ secret # <<>>
    /\ \E i \in 1..Len(text) :
            /\ i + Len(secret) - 1 <= Len(text)
            /\ SubSeq(text, i, i + Len(secret) - 1) = secret

Leaks(text) == Holds(text, cfg.DEV_AUTH_TOKEN) \/ Holds(text, cfg.API_TOKEN)

\* the body of a response the gateway wrote itself, as the backend URL and
\* the gate header name alone determine it
OwnBody(by, url, name) ==
    CASE by = "health" -> [ok |-> TRUE, backend |-> url]
      [] by = "gate" ->
            [error |-> "Unauthorized",
             message |->
                <<"Missing or invalid dev auth token. Please send header \"">>
                    \o name \o <<"\" with the correct value.">>]
      [] by = "status" -> [ok |-> TRUE]

\* C27: no response the gateway generates itself (health body, 401 body,
\* status probe body) contains the gate token or the backend API token.
\* Each such body is determined by the backend URL and the gate header name
\* alone, so configurations that differ only in the token values give
\* identical bodies, and no text in it holds either token.
C27_BodiesHoldNoToken ==
    \A i \in DOMAIN res :
        res[i].by \in {"health", "gate", "status"} =>
            /\ res[i].json = OwnBody(res[i].by, cfg.BACKEND_BASE_URL,
                                     cfg.DEV_AUTH_HEADER_NAME)
            /\ res[i].by = "health" => ~Leaks(res[i].json.backend)
            /\ res[i].by = "gate" => ~Leaks(res[i].json.message)

\* a request was rejected with the 401 body while both tokens were set
C27_Witness ==
    /\ Answered
    /\ res[1].by = "gate" /\ res[1].status = 401
    /\ cfg.DEV_AUTH_TOKEN = <<"a">> /\ cfg.API_TOKEN # <<>>

\* how many times "/bff" occurs in a URL
Occurrences(url) ==
    Cardinality({i \in 1..(Len(url) - 1) : url[i] = "/" /\ url[i + 1] = "bff"})

\* C28: the /bff prefix is stripped exactly once and only as the leading
\* path segment. A forwarded request whose path starts with /bff is sent
\* with /api/public followed by everything after that first segment, query
\* included, so /bff/bff/x goes to /api/public/bff/x and every later "/bff",
\* in the path or in the query, is still there.
C28_LeadingPrefixOnce ==
    \A i \in DOMAIN sent :
        (Len(req.path) >= 2 /\ req.path[1] = "/" /\ req.path[2] = "bff") =>
            LET inbound == req.path \o QueryPart(req)
            IN  /\ sent[i].url = <<"/", "api", "/", "public">>
                                    \o SubSeq(inbound, 3, Len(inbound))
                /\ Occurrences(sent[i].url) = Occurrences(inbound) - 1

\* /bff/bff/x/bff?next=/bff was forwarded with only the leading /bff gone
C28_Witness ==
    /\ Len(sent) = 1
    /\ req.path = <<"/", "bff", "/", "bff", "/", "x", "/", "bff">>
    /\ req.query = <<"next=", "/", "bff">>
    /\ sent[1].url = <<"/", "api", "/", "public", "/", "bff", "/", "x", "/",
                       "bff", "?", "next=", "/", "bff">>

\* the probe has finished without a 2xx answer: a non-2xx status arrived or
\* the network failed
ProbeFinishedBadly ==
    \/ banner.probe = "failed"
    \/ banner.probe = "answered" /\ ~(banner.status \in 200..299)

\* C29: the client's dev auth banner is shown exactly when a client-side
\* token is configured and the GET /bff/dev-auth-status probe has finished
\* with a non-2xx status or a network failure. It is not shown while the
\* probe is pending or after a 2xx answer, and without a client-side token
\* it is not shown and no probe is ever sent.
C29_BannerIffProbeFailed ==
    /\ BannerShown <=> (banner.token # <<>> /\ ProbeFinishedBadly)
    /\ banner.token = <<>> =>
            /\ banner.probe = "none"
            /\ req.path # <<"/", "bff", "/", "dev-auth-status">>

\* the gateway answered the probe with 401 and the banner is up
C29_Witness ==
    /\ BannerShown
    /\ banner.token = <<"a">>
    /\ banner.probe = "answered" /\ banner.status = 401

\* C30: when loads of the panel's list overlap, the loading flag stays true
\* until every load in flight has settled, and once all have settled the
\* list shown is the result of the load that was started last.
C30_OverlappingLoads ==
    /\ InFlight(panel) # {} => panel.loading
    /\ (panel.loads # <<>> /\ InFlight(panel) = {}) =>
            panel.domains = panel.loads[Len(panel.loads)].data

====
